---- MODULE Spec2Model ----
(***************************************************************************)
(* A model of the NL -> SQL generation pipeline of nl2sql:                 *)
(*   api.py              extract_table_names_from_onyx_response,           *)
(*                       onyx_chat_with_sql_generation                     *)
(*   policy_sql_agent.py filter_schema_by_tables, validate_policy_output,  *)
(*                       run_policy_sql_agent,                             *)
(*                       run_policy_sql_agent_with_execution               *)
(* Texts are TLA+ strings; the Python string methods and the regular       *)
(* expressions of the source are operators on them, character by           *)
(* character.                                                              *)
(***************************************************************************)
EXTENDS Integers, Sequences, FiniteSets, TLC

(***************************************************************************)
(* Python str methods                                                      *)
(***************************************************************************)
ch(s, i) == SubSeq(s, i, i)

LowerAlpha == "abcdefghijklmnopqrstuvwxyz"
UpperAlpha == "ABCDEFGHIJKLMNOPQRSTUVWXYZ"
DigitChars == {"0", "1", "2", "3", "4", "5", "6", "7", "8", "9"}
LowerChars == {ch(LowerAlpha, i) : i \in 1..Len(LowerAlpha)}
UpperChars == {ch(UpperAlpha, i) : i \in 1..Len(UpperAlpha)}
SpaceChars == {" ", "\t", "\n", "\r", "\f"}
\* the character U+0060, which cannot be written alone in a TLA+ string
Backtick == SubSeq("`'", 1, 1)

LowerOf == [c \in UpperChars |->
              ch(LowerAlpha, CHOOSE i \in 1..Len(UpperAlpha) : ch(UpperAlpha, i) = c)]
UpperOf == [c \in LowerChars |->
              ch(UpperAlpha, CHOOSE i \in 1..Len(LowerAlpha) : ch(LowerAlpha, i) = c)]

char_lower(c) == IF c \in UpperChars THEN LowerOf[c] ELSE c
char_upper(c) == IF c \in LowerChars THEN UpperOf[c] ELSE c

\* The operators below bind their arguments in a local function, so that an
\* argument is evaluated once however often the body reads it.

\* the least element of a non-empty set of positions
First(positions) ==
    LET least[S \in SUBSET Int] == CHOOSE i \in S : \A k \in S : i <= k
    IN  least[positions]

\* the greatest element of a non-empty set of positions
Final(positions) ==
    LET greatest[S \in SUBSET Int] == CHOOSE i \in S : \A k \in S : k <= i
    IN  greatest[positions]

\* s.lower(), the two halves of s at a time
str_lower(s) ==
    LET lower[t \in STRING] ==
            IF Len(t) = 0 THEN ""
            ELSE IF Len(t) = 1 THEN char_lower(t)
            ELSE lower[SubSeq(t, 1, Len(t) \div 2)]
                   \o lower[SubSeq(t, Len(t) \div 2 + 1, Len(t))]
    IN  lower[s]

\* s.upper()
str_upper(s) ==
    LET upper[t \in STRING] ==
            IF Len(t) = 0 THEN ""
            ELSE IF Len(t) = 1 THEN char_upper(t)
            ELSE upper[SubSeq(t, 1, Len(t) \div 2)]
                   \o upper[SubSeq(t, Len(t) \div 2 + 1, Len(t))]
    IN  upper[s]

\* s.strip(): from the first to the last character that is not whitespace
str_strip(s) ==
    LET strip[t \in STRING] ==
            LET kept == {i \in 1..Len(t) : ch(t, i) \notin SpaceChars}
            IN  IF kept = {} THEN "" ELSE SubSeq(t, First(kept), Final(kept))
    IN  strip[s]

\* s.replace(old, ''), old a single character
str_remove(s, old) ==
    LET remove[t \in STRING] ==
            IF Len(t) = 0 THEN ""
            ELSE IF Len(t) = 1 THEN (IF t = old THEN "" ELSE t)
            ELSE remove[SubSeq(t, 1, Len(t) \div 2)]
                   \o remove[SubSeq(t, Len(t) \div 2 + 1, Len(t))]
    IN  remove[s]

\* s.startswith(p)
str_startswith(s, p) ==
    LET startswith[t \in STRING, u \in STRING] ==
            Len(t) >= Len(u) /\ SubSeq(t, 1, Len(u)) = u
    IN  startswith[s, p]

\* sub in s
str_contains(s, sub) ==
    LET contains[t \in STRING, u \in STRING] ==
            \E i \in 1..(Len(t) - Len(u) + 1) : SubSeq(t, i, i + Len(u) - 1) = u
    IN  contains[s, sub]

\* s.isupper(): at least one cased character and no lower-case one
str_isupper(s) ==
    LET isupper[t \in STRING] ==
            /\ \E i \in 1..Len(t) : ch(t, i) \in UpperChars
            /\ \A i \in 1..Len(t) : ch(t, i) \notin LowerChars
    IN  isupper[s]

(***************************************************************************)
(* Regular-expression character classes (re module)                        *)
(***************************************************************************)
IdentStartChars == LowerChars \cup UpperChars \cup {"_"}            \* [a-zA-Z_]
IdentChars == IdentStartChars \cup DigitChars                     \* [a-zA-Z0-9_]
\* letters and digits outside ASCII, which \w and \b of a str pattern count
\* as word characters and [a-zA-Z0-9_] does not.  The strings of a state
\* hold 7-bit characters only, so the letter e with an acute accent (U+00E9)
\* is written ~ in every text of this module; no text here has a tilde.
UnicodeWordChars == {"~"}
WordChars == IdentChars \cup UnicodeWordChars                      \* \w
ColonOrSpaceChars == {":"} \cup SpaceChars                        \* [:\s]

IsIdentStart(c) == c \in IdentStartChars
IsWordChar(c) == c \in WordChars

\* the last position of the longest run of characters of the class that
\* starts at position i (i - 1 when the run is empty): a greedy X*
RunEnd(s, i, class) ==
    LET stop == {k \in i..Len(s) : ch(s, k) \notin class}
    IN  IF stop = {} THEN Len(s) ELSE First(stop) - 1

\* \b between positions p - 1 and p
WordBoundary(s, p) ==
    LET before == p > 1 /\ p - 1 <= Len(s) /\ IsWordChar(ch(s, p - 1))
        after == p >= 1 /\ p <= Len(s) /\ IsWordChar(ch(s, p))
    IN  before # after

\* does the lower-case literal lit match s at position i, ignoring case
\* (re.IGNORECASE)
MatchesAt(s, i, lit) ==
    /\ i + Len(lit) - 1 <= Len(s)
    /\ \A k \in 1..Len(lit) : char_lower(ch(s, i + k - 1)) = ch(lit, k)

(***************************************************************************)
(* api.py: the table-mention extractor                                     *)
(***************************************************************************)
valid_table_names == {
    "policy", "caution_deposit", "caution_deposit_transaction",
    "caution_deposit_policy_mapping", "endorsement",
    "mstr_policy_constraints", "opportunity",
    "opportunity_broking_slip_version_cover_map_details",
    "opportunity_broking_slip_version_details",
    "opportunity_claim_experience", "opportunity_cover_map",
    "opportunity_final_negotiation", "opportunity_placement_slip_generation",
    "opportunity_policy_confirmation",
    "opportunity_policy_confirmation_document_map",
    "opportunity_policy_docket", "opportunity_policy_docket_document_map",
    "opportunity_policy_hard_copy",
    "opportunity_policy_hard_copy_document_map",
    "opportunity_premium_cover_detail", "opportunity_rfp_cover_detail",
    "policy_cd_number_map", "policy_configuration",
    "policy_configuration_components_detail",
    "policy_configuration_template_doc_map", "policy_cover_map",
    "policy_employee_claim", "policy_employee_claim_settlement",
    "policy_employee_endorsement", "policy_employee_enrollment",
    "policy_employee_enrollment_choice",
    "policy_endorsement_template_doc_map", "policy_enrollment_dependent",
    "policy_enrollment_employee", "policy_enrollment_employee_policy_map",
    "policy_enrollment_template_doc_map", "policy_enrollment_upload_summary",
    "policy_insurer_map", "policy_premium_installment_schedules",
    "policy_tpa_map", "business_target", "mstr_stage_activity_template",
    "company", "lookup_data" }

\* Pattern 1, the header (?:relevant tables?|tables?): the position after it
\* when it matches at i, 0 otherwise
structured_header_end(s, i) ==
    LET h == IF MatchesAt(s, i, "relevant table") THEN i + Len("relevant table")
             ELSE IF MatchesAt(s, i, "table") THEN i + Len("table")
             ELSE 0
    IN  IF h = 0 THEN 0
        ELSE IF h <= Len(s) /\ char_lower(ch(s, h)) = "s" THEN h + 1 ELSE h

\* Pattern 1 after the header, [:\s]*\n(?:\d+\.\s*(ident)|[\-\*]\s*(ident)),
\* from position p: <<first, last>> of the captured identifier, <<0, 0>> when
\* there is no match
structured_item(s, p) ==
    LET \* the identifier after position w, where \s* ended
        ident[w \in Int] ==
            IF w + 1 <= Len(s) /\ IsIdentStart(ch(s, w + 1))
            THEN <<w + 1, RunEnd(s, w + 1, IdentChars)>>
            ELSE <<0, 0>>
        \* the list marker after position r, where [:\s]* ended
        marker[r \in Int] ==
            LET d == RunEnd(s, r + 1, DigitChars)
                numbered == d >= r + 1 /\ d + 1 <= Len(s) /\ ch(s, d + 1) = "."
                bulleted == r + 1 <= Len(s) /\ ch(s, r + 1) \in {"-", "*"}
            IN  IF r < p \/ ch(s, r) # "\n" THEN <<0, 0>>
                ELSE IF numbered THEN ident[RunEnd(s, d + 2, SpaceChars)]
                ELSE IF bulleted THEN ident[RunEnd(s, r + 2, SpaceChars)]
                ELSE <<0, 0>>
    IN  marker[RunEnd(s, p, ColonOrSpaceChars)]

\* Pattern 1 at position i: <<first, last>> of the captured identifier,
\* <<0, 0>> when there is no match
structured_match_at(s, i) ==
    LET h == structured_header_end(s, i)
    IN  IF h = 0 THEN <<0, 0>> ELSE structured_item(s, h)

\* re.findall(structured_pattern, s, re.IGNORECASE | re.MULTILINE) from
\* position i: the non-empty groups of the successive leftmost matches
structured_matches(s, i) ==
    LET findall[p \in 1..(Len(s) + 1)] ==
            LET m == structured_match_at(s, p)
                starts == {k \in p..Len(s) : structured_match_at(s, k)[1] # 0}
            IN  IF p <= Len(s) /\ m[1] # 0
                THEN <<SubSeq(s, m[1], m[2])>> \o findall[m[2] + 1]
                ELSE IF starts = {} THEN <<>>
                ELSE findall[First(starts)]
    IN  findall[i]

\* the backtick pattern at position i: <<first, last>> of the identifier
\* between the two delimiters, <<0, 0>> when there is no match
backtick_match_at(s, i) ==
    IF ch(s, i) = Backtick /\ i + 1 <= Len(s) /\ IsIdentStart(ch(s, i + 1))
    THEN LET j == RunEnd(s, i + 1, IdentChars)
         IN  IF j + 1 <= Len(s) /\ ch(s, j + 1) = Backtick
             THEN <<i + 1, j>> ELSE <<0, 0>>
    ELSE <<0, 0>>

\* re.findall(backtick_pattern, s) from position i
backtick_matches(s, i) ==
    LET findall[p \in 1..(Len(s) + 1)] ==
            LET m == backtick_match_at(s, p)
                starts == {k \in p..Len(s) : backtick_match_at(s, k)[1] # 0}
            IN  IF p <= Len(s) /\ m[1] # 0
                THEN <<SubSeq(s, m[1], m[2])>> \o findall[m[2] + 2]
                ELSE IF starts = {} THEN <<>>
                ELSE findall[First(starts)]
    IN  findall[i]

\* the sentence pattern at position i: <<first, last, end>>, the identifier
\* and the last position of the match, <<0, 0, 0>> when there is no match
sentence_match_at(s, i) ==
    IF IsIdentStart(ch(s, i)) /\ WordBoundary(s, i)
    THEN LET j == RunEnd(s, i, IdentChars)
             k == RunEnd(s, j + 1, SpaceChars)
         IN  IF /\ k > j
                /\ MatchesAt(s, k + 1, "table")
                /\ WordBoundary(s, k + 1 + Len("table"))
             THEN <<i, j, k + Len("table")>> ELSE <<0, 0, 0>>
    ELSE <<0, 0, 0>>

\* re.findall(sentence_pattern, s, re.IGNORECASE) from position i
sentence_matches(s, i) ==
    LET findall[p \in 1..(Len(s) + 1)] ==
            LET m == sentence_match_at(s, p)
                starts == {k \in p..Len(s) : sentence_match_at(s, k)[1] # 0}
            IN  IF p <= Len(s) /\ m[1] # 0
                THEN <<SubSeq(s, m[1], m[2])>> \o findall[m[3] + 1]
                ELSE IF starts = {} THEN <<>>
                ELSE findall[First(starts)]
    IN  findall[i]

\* direct_mention without the word boundaries
direct_mention_in_word(s, table_name) ==
    \E i \in 1..(Len(s) - Len(table_name) + 1) : MatchesAt(s, i, table_name)

\* re.search(r'\b' + re.escape(table_name) + r'\b', s, re.IGNORECASE)
direct_mention(s, table_name) ==
    \E i \in 1..(Len(s) - Len(table_name) + 1) :
        /\ MatchesAt(s, i, table_name)
        /\ WordBoundary(s, i)
        /\ WordBoundary(s, i + Len(table_name))

\* append_valid without the membership test
append_unvalidated(mentioned_tables, matches) ==
    LET loop[mentioned \in Seq(STRING), rest \in Seq(STRING)] ==
            IF rest = <<>> THEN mentioned
            ELSE LET table_name == str_lower(str_strip(Head(rest)))
                     seen == {mentioned[k] : k \in 1..Len(mentioned)}
                 IN  loop[IF table_name \notin seen
                          THEN Append(mentioned, table_name)
                          ELSE mentioned,
                          Tail(rest)]
    IN  loop[mentioned_tables, matches]

\* the loop bodies of patterns 1-3: lower-case each match, keep it when it
\* is a valid table name not yet mentioned
append_valid(mentioned_tables, matches) ==
    LET loop[mentioned \in Seq(STRING), rest \in Seq(STRING)] ==
            IF rest = <<>> THEN mentioned
            ELSE LET table_name == str_lower(str_strip(Head(rest)))
                     seen == {mentioned[k] : k \in 1..Len(mentioned)}
                 IN  loop[IF table_name \in valid_table_names /\ table_name \notin seen
                          THEN Append(mentioned, table_name)
                          ELSE mentioned,
                          Tail(rest)]
    IN  loop[mentioned_tables, matches]

\* the loop of pattern 4 over valid_table_names, visited in the order
\* given (the iteration order of the Python set)
append_direct(mentioned_tables, s, order) ==
    LET loop[mentioned \in Seq(STRING)] ==
            LET seen == {mentioned[k] : k \in 1..Len(mentioned)}
                found(table_name) ==
                    direct_mention(s, table_name) /\ table_name \notin seen
            IN  mentioned \o SelectSeq(order, found)
    IN  loop[mentioned_tables]

extract_table_names_from_onyx_response(onyx_response, order) ==
    LET m1 == append_valid(<<>>, structured_matches(onyx_response, 1))
        m2 == append_valid(m1, backtick_matches(onyx_response, 1))
        m3 == append_valid(m2, sentence_matches(onyx_response, 1))
    IN  append_direct(m3, onyx_response, order)

(***************************************************************************)
(* Python values: a dict maps keys to tagged values, so that None, strings, *)
(* booleans, numbers and lists can sit in the same field                   *)
(***************************************************************************)
PyNone == [t |-> "None"]
PyStr(s) == [t |-> "str", v |-> s]
PyBool(b) == [t |-> "bool", v |-> b]
PyInt(n) == [t |-> "int", v |-> n]
PyList(l) == [t |-> "list", v |-> l]

\* bool(x)
truthy(x) ==
    CASE x.t = "None" -> FALSE
      [] x.t = "str" -> x.v # ""
      [] x.t = "bool" -> x.v
      [] x.t = "int" -> x.v # 0
      [] x.t = "list" -> Len(x.v) > 0

\* d.get(key, default)
dict_get(d, key, default) == IF key \in DOMAIN d THEN d[key] ELSE default

\* {**d, **e}
dict_merge(d, e) ==
    [k \in DOMAIN d \cup DOMAIN e |-> IF k \in DOMAIN e THEN e[k] ELSE d[k]]

\* except Exception: return [], with a list of its own instead
on_scan_error_keeps_default == <<"lookup_data">>

\* except Exception as e: ... return []
on_scan_error == <<>>

\* re.findall raises TypeError when its argument is not a str
scan_raises(value) == value.t # "str"

\* extract_table_names_from_onyx_response on any Python value: the body of
\* its try on a text, its except branch otherwise
extract_table_names_call(value, order) ==
    IF scan_raises(value) THEN on_scan_error
    ELSE extract_table_names_from_onyx_response(value.v, order)

(***************************************************************************)
(* policy_sql_agent.py: the schema filter                                  *)
(***************************************************************************)
\* s.split('\n')
str_split_lines(s) ==
    LET split[t \in STRING] ==
            LET nl == {i \in 1..Len(t) : ch(t, i) = "\n"}
            IN  IF nl = {} THEN <<t>>
                ELSE <<SubSeq(t, 1, First(nl) - 1)>>
                       \o split[SubSeq(t, First(nl) + 1, Len(t))]
    IN  split[s]

\* '\n'.join(lines)
str_join_lines(lines) ==
    LET join[l \in Seq(STRING)] ==
            IF l = <<>> THEN ""
            ELSE IF Len(l) = 1 THEN l[1]
            ELSE l[1] \o "\n" \o join[Tail(l)]
    IN  join[lines]

\* is_header_or_separator without the test for a blank line
is_header_or_separator_not_blank(line) ==
    str_startswith(line, "---") \/ str_isupper(line)

\* line.strip() == '' or line.startswith('---') or line.isupper()
is_header_or_separator(line) ==
    str_strip(line) = "" \/ str_startswith(line, "---") \/ str_isupper(line)

\* is_table_definition_line that compares without lower()
is_table_definition_line_case_sensitive(line, relevant_tables) ==
    \E k \in 1..Len(relevant_tables) :
        /\ str_contains(str_strip(line), relevant_tables[k])
        /\ ~str_startswith(line, " ")

\* any(table.lower() in line_lower and not line.startswith(' ') ...)
is_table_definition_line(line, relevant_tables) ==
    \E k \in 1..Len(relevant_tables) :
        /\ str_contains(str_strip(str_lower(line)), str_lower(relevant_tables[k]))
        /\ ~str_startswith(line, " ")

\* filter_lines with the append test before the update of include_section
filter_lines_appends_first(lines, relevant_tables, include_section) ==
    LET loop[rest \in Seq(STRING), tables \in Seq(STRING), section \in BOOLEAN] ==
            IF rest = <<>> THEN <<>>
            ELSE LET line == Head(rest)
                     include ==
                         IF is_table_definition_line(line, tables) THEN TRUE
                         ELSE IF is_header_or_separator(line) THEN section
                         ELSE IF ~str_startswith(line, " ") /\ str_strip(line) # ""
                         THEN FALSE
                         ELSE section
                 IN  (IF section \/ is_header_or_separator(line) THEN <<line>> ELSE <<>>)
                       \o loop[Tail(rest), tables, include]
    IN  loop[lines, relevant_tables, include_section]

\* the loop over the lines, include_section being its flag on entry
filter_lines(lines, relevant_tables, include_section) ==
    LET loop[rest \in Seq(STRING), tables \in Seq(STRING), section \in BOOLEAN] ==
            IF rest = <<>> THEN <<>>
            ELSE LET line == Head(rest)
                     include ==
                         IF is_table_definition_line(line, tables) THEN TRUE
                         ELSE IF is_header_or_separator(line) THEN section
                         ELSE IF ~str_startswith(line, " ") /\ str_strip(line) # ""
                         THEN FALSE
                         ELSE section
                 IN  (IF include \/ is_header_or_separator(line) THEN <<line>> ELSE <<>>)
                       \o loop[Tail(rest), tables, include]
    IN  loop[lines, relevant_tables, include_section]

\* filter_schema_by_tables without its first test
filter_schema_always_scans(full_schema, relevant_tables) ==
    str_join_lines(filter_lines(str_split_lines(full_schema), relevant_tables, FALSE))

filter_schema_by_tables(full_schema, relevant_tables) ==
    IF relevant_tables = <<>> \/ full_schema = "" THEN full_schema
    ELSE str_join_lines(filter_lines(str_split_lines(full_schema), relevant_tables, FALSE))

(***************************************************************************)
(* policy_sql_agent.py: the response models and the output validator       *)
(***************************************************************************)
PolicyQuerySuccess(sql_query, explanation, business_context) ==
    [type |-> "PolicyQuerySuccess", sql_query |-> sql_query,
     explanation |-> explanation, business_context |-> business_context]

PolicyQueryError(error_message, suggestion) ==
    [type |-> "PolicyQueryError", error_message |-> error_message,
     suggestion |-> suggestion]

\* output.sql_query.replace('\\', '').strip()
clean_sql_query(sql_query) == str_strip(str_remove(sql_query, "\\"))

\* is_not_select that lets every text through
is_not_select_never(sql_query) == FALSE

\* not output.sql_query.upper().startswith('SELECT')
is_not_select(sql_query) == ~str_startswith(str_upper(sql_query), "SELECT")

\* opportunity_keywords with one keyword forgotten
opportunity_keywords_without_sales == {"opportunity", "brokerage"}

opportunity_keywords == {"opportunity", "brokerage", "sales"}

\* opportunity_table_missing with the check left out
opportunity_check_skipped(prompt, sql_query) == FALSE

\* any(keyword in prompt_lower ...) and 'opportunity' not in sql_query.lower()
opportunity_table_missing(prompt, sql_query) ==
    /\ \E keyword \in opportunity_keywords : str_contains(str_lower(prompt), keyword)
    /\ ~str_contains(str_lower(sql_query), "opportunity")

\* validate_policy_output: either returns an output or raises ModelRetry
\* with a message
validate_policy_output(prompt, output) ==
    IF output.type = "PolicyQueryError"
    THEN [raised |-> FALSE, output |-> output, message |-> ""]
    ELSE LET cleaned == [output EXCEPT !.sql_query = clean_sql_query(@)]
         IN  IF is_not_select(cleaned.sql_query)
             THEN [raised |-> TRUE, output |-> cleaned,
                   message |-> "Please create a SELECT query for policy data"]
             ELSE IF opportunity_table_missing(prompt, cleaned.sql_query)
             THEN [raised |-> TRUE, output |-> cleaned,
                   message |->
                     "Opportunity-related queries should reference the opportunity table"]
             ELSE [raised |-> FALSE, output |-> cleaned, message |-> ""]

(***************************************************************************)
(* policy_sql_agent.py: the dicts run_policy_sql_agent returns             *)
(***************************************************************************)
\* {"error": message}
error_only_result(message) == [error |-> PyStr(message)]

\* the dict of the except branch and of the PolicyQueryError branch
failure_result(message) ==
    [sql_query |-> PyNone, explanation |-> PyNone, business_context |-> PyNone,
     error |-> PyStr(message)]

\* the dict of the PolicyQuerySuccess branch
success_result(result_data) ==
    [sql_query |-> PyStr(result_data.sql_query),
     explanation |-> PyStr(result_data.explanation),
     business_context |-> PyStr(result_data.business_context),
     error |-> PyNone]

\* refusal_message that drops the suggestion
refusal_message_without_suggestion(result_data) == result_data.error_message

\* result_data.error_message + " " + result_data.suggestion
refusal_message(result_data) ==
    result_data.error_message \o " " \o result_data.suggestion

\* what run_policy_sql_agent returns for the output agent.run returned
agent_return(result_data) ==
    IF result_data.type = "PolicyQuerySuccess" THEN success_result(result_data)
    ELSE failure_result(refusal_message(result_data))

\* Agent(...) is built without retries=: the library's default of one retry
\* of a rejected output
max_result_retries == 1

\* retries_exhausted with a ceiling of zero: no retry at all
retries_exhausted_at_once(retries) == retries > 0

\* retries_exhausted that never gives up
retries_never_exhausted(retries) == FALSE

\* agent.run, on ModelRetry: the retry counter after the increment exceeds
\* the ceiling, and the run raises UnexpectedModelBehavior
retries_exhausted(retries) == retries > max_result_retries

exhausted_message ==
    "Exceeded maximum retries (" \o ToString(max_result_retries)
        \o ") for output validation"

\* agent_error_result that reports no error
agent_error_swallowed(e) ==
    [sql_query |-> PyNone, explanation |-> PyNone, business_context |-> PyNone,
     error |-> PyNone]

\* f"SQL agent error: {str(e)}"
agent_error_result(e) == failure_result("SQL agent error: " \o e)

\* enhanced_tables without the added lookup_data
enhanced_tables_without_lookup(relevant_tables) == relevant_tables

\* list(set(relevant_tables + ['lookup_data'])), in some order
enhanced_tables(relevant_tables) ==
    LET names == {relevant_tables[k] : k \in 1..Len(relevant_tables)} \cup {"lookup_data"}
        ordered[S \in SUBSET names] ==
            IF S = {} THEN <<>>
            ELSE LET x == CHOOSE y \in S : TRUE IN <<x>> \o ordered[S \ {x}]
    IN  ordered[names]

\* schema_to_use_for that filters also when no table was extracted
schema_to_use_always_filtered(full_schema, relevant_tables) ==
    LET filtered_schema ==
            filter_schema_by_tables(full_schema, enhanced_tables(relevant_tables))
    IN  IF filtered_schema # "" THEN filtered_schema ELSE full_schema

\* the schema text the system prompt is built from
schema_to_use_for(full_schema, relevant_tables) ==
    IF relevant_tables # <<>>
    THEN LET filtered_schema ==
                 filter_schema_by_tables(full_schema, enhanced_tables(relevant_tables))
         IN  IF filtered_schema # "" THEN filtered_schema ELSE full_schema
    ELSE full_schema

\* the eight execution keys of a failed execution
execution_fields_failed ==
    [execution_success |-> PyBool(FALSE), execution_time_ms |-> PyNone,
     row_count |-> PyNone, column_count |-> PyNone, executed_at |-> PyNone,
     data |-> PyNone, columns |-> PyNone, execution_error |-> PyNone]

\* the eight execution keys, all None
execution_fields_none ==
    [execution_success |-> PyNone, execution_time_ms |-> PyNone,
     row_count |-> PyNone, column_count |-> PyNone, executed_at |-> PyNone,
     data |-> PyNone, columns |-> PyNone, execution_error |-> PyNone]

\* the execution keys after execute_sql_query_fast returned execution_result
execution_fields_of(execution_result) ==
    [execution_success |-> PyBool(execution_result.success),
     execution_time_ms |-> execution_result.execution_time_ms,
     row_count |-> IF execution_result.success
                   THEN PyInt(Len(execution_result.data.v)) ELSE PyInt(0),
     column_count |-> IF execution_result.success /\ truthy(execution_result.columns)
                      THEN PyInt(Len(execution_result.columns.v)) ELSE PyInt(0),
     executed_at |-> execution_result.executed_at,
     data |-> IF execution_result.success THEN execution_result.data ELSE PyNone,
     columns |-> IF execution_result.success THEN execution_result.columns ELSE PyNone,
     execution_error |-> IF ~execution_result.success
                         THEN execution_result.error ELSE PyNone]

\* the except branch without its message
execution_fields_raised_without_error(e) ==
    [execution_fields_none EXCEPT !.execution_success = PyBool(FALSE)]

\* the execution keys of the except branch
execution_fields_raised(e) ==
    [execution_fields_none EXCEPT !.execution_success = PyBool(FALSE),
                                  !.execution_error = PyStr(e)]

\* len(execution_result.data) raises TypeError when data is None
execution_read_raises(execution_result) ==
    execution_result.success /\ execution_result.data.t # "list"

(***************************************************************************)
(* api.py: the orchestrator's fallback and envelope                        *)
(***************************************************************************)
\* ChatService.create_chat_session: raise Exception(f"Chat service error: ...")
chat_service_error(e) == "Chat service error: " \o e

\* f"Onyx service unavailable: {str(onyx_error)}"
onyx_unavailable(onyx_error) == "Onyx service unavailable: " \o onyx_error

\* relevant_tables = []  # Use full schema as fallback
fallback_relevant_tables == <<>>

execution_keys ==
    {"execution_success", "execution_time_ms", "row_count", "column_count",
     "executed_at", "data", "columns", "execution_error"}

\* combine_results that copies the execution keys whatever the flag
combine_with_execution_keys(prompt_, onyx_response_, relevant_tables_, sql_result_, execute_query_) ==
    [user_query |-> PyStr(prompt_),
     onyx_response |-> PyStr(onyx_response_),
     relevant_tables |-> PyList(relevant_tables_),
     sql_query |-> dict_get(sql_result_, "sql_query", PyStr("")),
     explanation |-> dict_get(sql_result_, "explanation", PyStr("")),
     business_context |-> dict_get(sql_result_, "business_context", PyStr("")),
     error |-> dict_get(sql_result_, "error", PyNone),
     execution_success |-> dict_get(sql_result_, "execution_success", PyNone),
     execution_time_ms |-> dict_get(sql_result_, "execution_time_ms", PyNone),
     row_count |-> dict_get(sql_result_, "row_count", PyNone),
     column_count |-> dict_get(sql_result_, "column_count", PyNone),
     executed_at |-> dict_get(sql_result_, "executed_at", PyNone),
     data |-> dict_get(sql_result_, "data", PyNone),
     columns |-> dict_get(sql_result_, "columns", PyNone),
     execution_error |-> dict_get(sql_result_, "execution_error", PyNone)]

\* the result dict built from sql_result
combine_results(prompt_, onyx_response_, relevant_tables_, sql_result_, execute_query_) ==
    LET base ==
          [user_query |-> PyStr(prompt_),
           onyx_response |-> PyStr(onyx_response_),
           relevant_tables |-> PyList(relevant_tables_),
           sql_query |-> dict_get(sql_result_, "sql_query", PyStr("")),
           explanation |-> dict_get(sql_result_, "explanation", PyStr("")),
           business_context |-> dict_get(sql_result_, "business_context", PyStr("")),
           error |-> dict_get(sql_result_, "error", PyNone)]
    IN  IF execute_query_
        THEN dict_merge(base, [k \in execution_keys |-> dict_get(sql_result_, k, PyNone)])
        ELSE base

(***************************************************************************)
(* Bounds and inputs                                                       *)
(***************************************************************************)
\* the model stops issuing model requests after this many (the code's own
\* ceiling is lower)
MaxCalls == 3
\* fragments concatenated into a context text for the extractor alone
MaxFrags == 4
\* lines of a schema document for the schema filter alone
MaxLines == 3

Prompts ==
    {"  ", "active policy premium", "Sales report", "BROKERAGE due",
     "endorsement list", "opportunity premium"}

ContextTexts ==
    {"Relevant tables:\n1. policy (core)",
     "Use the " \o Backtick \o "opportunity" \o Backtick \o " and the company table",
     "policy and endorsement data",
     "no hint here"}

ChatErrors == {"401 Unauthorized"}

\* the content of data/iirm/tables-policy-detailed.txt
SchemaDocument ==
    "DATABASE SCHEMA\n---\npolicy (policies)\n  id int\n  status_lid int\n\n"
        \o "opportunity\n  remarks text\nlookup_data\n  value text\ncompany\n  name text"

SqlTexts ==
    {"SELECT * FROM policy",
     "UPDATE policy SET x=1",
     "SELECT 1; DROP TABLE policy",
     "SELECTED",
     " \\select * from Opportunity\n",
     "SELECT * FROM company",
     "\\"}

CapabilityOutputs ==
    {PolicyQuerySuccess(q, "uses lookup_data", "") : q \in SqlTexts}
      \cup {PolicyQueryError("ambiguous", "add a table name"),
            PolicyQueryError("out of scope", ""),
            PolicyQueryError("", "")}

CapabilityErrors == {"503 model overloaded"}

ExecutionResults ==
    {[success |-> TRUE, execution_time_ms |-> PyInt(12),
      data |-> PyList(<<<<"1", "a">>, <<"2", "b">>>>), columns |-> PyList(<<"id", "name">>),
      executed_at |-> PyStr("2025-01-01T00:00:00"), error |-> PyNone],
     [success |-> TRUE, execution_time_ms |-> PyInt(3),
      data |-> PyList(<<>>), columns |-> PyList(<<"id", "name">>),
      executed_at |-> PyStr("2025-01-01T00:00:00"), error |-> PyNone],
     [success |-> TRUE, execution_time_ms |-> PyInt(3),
      data |-> PyNone, columns |-> PyNone,
      executed_at |-> PyStr("2025-01-01T00:00:00"), error |-> PyNone],
     [success |-> FALSE, execution_time_ms |-> PyInt(1),
      data |-> PyNone, columns |-> PyNone,
      executed_at |-> PyStr("2025-01-01T00:00:00"), error |-> PyStr("syntax error")]}

ExecutionErrors == {"connection refused"}

\* iteration orders of the set valid_table_names: the order it is written
\* in, and the reverse
SourceOrder == <<
    "policy", "caution_deposit", "caution_deposit_transaction",
    "caution_deposit_policy_mapping", "endorsement",
    "mstr_policy_constraints", "opportunity",
    "opportunity_broking_slip_version_cover_map_details",
    "opportunity_broking_slip_version_details",
    "opportunity_claim_experience", "opportunity_cover_map",
    "opportunity_final_negotiation", "opportunity_placement_slip_generation",
    "opportunity_policy_confirmation",
    "opportunity_policy_confirmation_document_map",
    "opportunity_policy_docket", "opportunity_policy_docket_document_map",
    "opportunity_policy_hard_copy",
    "opportunity_policy_hard_copy_document_map",
    "opportunity_premium_cover_detail", "opportunity_rfp_cover_detail",
    "policy_cd_number_map", "policy_configuration",
    "policy_configuration_components_detail",
    "policy_configuration_template_doc_map", "policy_cover_map",
    "policy_employee_claim", "policy_employee_claim_settlement",
    "policy_employee_endorsement", "policy_employee_enrollment",
    "policy_employee_enrollment_choice",
    "policy_endorsement_template_doc_map", "policy_enrollment_dependent",
    "policy_enrollment_employee", "policy_enrollment_employee_policy_map",
    "policy_enrollment_template_doc_map", "policy_enrollment_upload_summary",
    "policy_insurer_map", "policy_premium_installment_schedules",
    "policy_tpa_map", "business_target", "mstr_stage_activity_template",
    "company", "lookup_data" >>

Reversed(q) == [k \in 1..Len(q) |-> q[Len(q) + 1 - k]]

TableOrders == {SourceOrder, Reversed(SourceOrder)}

\* lines of a schema document for the schema filter
SchemaLines ==
    {"DATABASE SCHEMA", "---", "", "policy (policies)", "  id int", "lookup_data",
     "company", "  policy_id int"}

\* lists of wanted tables for the schema filter
WantedLists ==
    {<<>>, <<"policy">>, <<"widgets">>, <<"company", "lookup_data">>, <<"Policy", "company">>}

\* pieces of context text for the extractor
Fragments ==
    {"policy", " table", Backtick, "Tables:\n", "1. ", "- ", "COMPANY", "widgets", "~"}

(***************************************************************************)
(* State                                                                   *)
(***************************************************************************)
VARIABLES
    prompt,            \* the request's prompt
    execute_query,     \* the request's execute flag
    google_api_key,    \* os.getenv("GOOGLE_API_KEY"): TRUE when set
    schema_file,       \* what load_policy_schema returns ("" when it fails)
    table_order,       \* the iteration order of valid_table_names
    pc,                \* where the request is
    onyx_response,     \* api.py: onyx_response
    relevant_tables,   \* api.py: relevant_tables
    context_failed,    \* the except branch of step 1 was taken
    schema_to_use,     \* policy_sql_agent.py: schema_to_use
    output,            \* the output the capability returned last
    outputs,           \* every output the capability returned, in order
    retries,           \* the run's retry counter
    retry_prompts,     \* the ModelRetry messages sent back to the capability
    calls,             \* number of capability invocations
    trace,             \* the generator's states, in order
    agent_result,      \* what run_policy_sql_agent returned
    sql_result,        \* what run_policy_sql_agent_with_execution returned
    adapter_calls,     \* number of execute_sql_query_fast calls
    result,            \* what onyx_chat_with_sql_generation returned
    ex_text,           \* extractor alone: the context text
    ex_frags,          \* extractor alone: number of fragments in ex_text
    ex_tables,         \* extractor alone: the list returned, once run
    execution_outcome, \* what execute_sql_query_fast did, once called
    ex_input,          \* extractor alone: the value it was called with
    fs_count,          \* schema filter alone: number of lines in schema_file
    fs_result,         \* schema filter alone: the text returned, once run
    requests           \* concurrent requests: each request's own state

request_vars == <<prompt, execute_query, google_api_key, schema_file, table_order>>
context_vars == <<onyx_response, relevant_tables, context_failed>>
agent_vars == <<schema_to_use, output, outputs, retries, retry_prompts, calls, trace,
                agent_result>>
tail_vars == <<sql_result, adapter_calls, execution_outcome, result>>
ex_vars == <<ex_text, ex_frags, ex_tables, ex_input, fs_count, fs_result, requests>>
vars == <<request_vars, pc, context_vars, agent_vars, tail_vars, ex_vars>>

NoDict == [none |-> PyNone]
NoOutput == [type |-> "none"]
NotRun == <<"not run">>
NoInput == [t |-> "unset"]
NoOutcome == [kind |-> "none"]

IdleState ==
    /\ onyx_response = ""
    /\ relevant_tables = <<>>
    /\ context_failed = FALSE
    /\ schema_to_use = ""
    /\ output = NoOutput
    /\ outputs = <<>>
    /\ retries = 0
    /\ retry_prompts = <<>>
    /\ calls = 0
    /\ trace = <<>>
    /\ agent_result = NoDict
    /\ sql_result = NoDict
    /\ adapter_calls = 0
    /\ execution_outcome = NoOutcome
    /\ result = NoDict

Init ==
    /\ prompt \in Prompts
    /\ execute_query \in BOOLEAN
    /\ google_api_key \in BOOLEAN
    /\ schema_file \in {SchemaDocument, ""}
    /\ table_order \in TableOrders
    /\ pc = "context"
    /\ IdleState
    /\ ex_text = ""
    /\ ex_frags = 0
    /\ ex_tables = NotRun
    /\ ex_input = NoInput
    /\ fs_count = 0
    /\ fs_result = ""
    /\ requests = <<>>

(***************************************************************************)
(* api.py onyx_chat_with_sql_generation, step 1 and 2                      *)
(***************************************************************************)
\* create_chat_session returned a text; the extractor runs on it
ContextRetrieved ==
    /\ pc = "context"
    /\ \E text \in ContextTexts :
          /\ onyx_response' = text
          /\ relevant_tables' = extract_table_names_from_onyx_response(text, table_order)
    /\ context_failed' = FALSE
    /\ pc' = "generate"
    /\ UNCHANGED <<request_vars, agent_vars, tail_vars, ex_vars>>

\* create_chat_session raised: the except branch
ContextFailed ==
    /\ pc = "context"
    /\ \E e \in ChatErrors : onyx_response' = onyx_unavailable(chat_service_error(e))
    /\ relevant_tables' = fallback_relevant_tables
    /\ context_failed' = TRUE
    /\ pc' = "generate"
    /\ UNCHANGED <<request_vars, agent_vars, tail_vars, ex_vars>>

(***************************************************************************)
(* policy_sql_agent.py run_policy_sql_agent                                *)
(***************************************************************************)

\* the early returns without the test of the schema
entry_error_without_schema_check ==
    IF str_strip(prompt) = "" THEN "Prompt cannot be empty."
    ELSE IF ~google_api_key THEN "GOOGLE_API_KEY must be set in environment variables."
    ELSE ""

\* the early returns, before any model request
entry_error ==
    IF str_strip(prompt) = "" THEN "Prompt cannot be empty."
    ELSE IF ~google_api_key THEN "GOOGLE_API_KEY must be set in environment variables."
    ELSE IF schema_file = "" THEN "Could not load policy schema"
    ELSE ""

\* from the call up to agent.run
AgentEntry ==
    /\ pc = "generate"
    /\ IF entry_error # ""
       THEN /\ agent_result' = error_only_result(entry_error)
            /\ trace' = <<"REJECTED">>
            /\ pc' = "execution"
            /\ UNCHANGED schema_to_use
       ELSE /\ schema_to_use' = schema_to_use_for(schema_file, relevant_tables)
            /\ trace' = <<"DRAFTING">>
            /\ pc' = "agent_request"
            /\ UNCHANGED agent_result
    /\ UNCHANGED <<request_vars, context_vars, output, outputs, retries, retry_prompts,
                   calls, tail_vars, ex_vars>>

\* agent.run: one request to the generation capability, which answers
ModelRequest ==
    /\ pc = "agent_request"
    /\ calls < MaxCalls
    /\ \E o \in CapabilityOutputs :
          /\ output' = o
          /\ outputs' = Append(outputs, o)
    /\ calls' = calls + 1
    /\ trace' = Append(trace, "VALIDATING")
    /\ pc' = "agent_validate"
    /\ UNCHANGED <<request_vars, context_vars, schema_to_use, retries, retry_prompts,
                   agent_result, tail_vars, ex_vars>>

\* agent.run: the request raises; the except branch of run_policy_sql_agent
ModelRequestFails ==
    /\ pc = "agent_request"
    /\ calls < MaxCalls
    /\ \E e \in CapabilityErrors : agent_result' = agent_error_result(e)
    /\ calls' = calls + 1
    /\ trace' = Append(trace, "REJECTED")
    /\ pc' = "execution"
    /\ UNCHANGED <<request_vars, context_vars, schema_to_use, output, outputs, retries,
                   retry_prompts, tail_vars, ex_vars>>

\* agent.run: the output validator on the output, then either the return of
\* run_policy_sql_agent, a retry, or the except branch when retries ran out
Validate ==
    /\ pc = "agent_validate"
    /\ LET v == validate_policy_output(prompt, output)
       IN  IF ~v.raised
           THEN /\ agent_result' = agent_return(v.output)
                /\ trace' = Append(trace, IF v.output.type = "PolicyQuerySuccess"
                                          THEN "ACCEPTED" ELSE "REJECTED")
                /\ pc' = "execution"
                /\ UNCHANGED <<retries, retry_prompts>>
           ELSE IF retries_exhausted(retries + 1)
           THEN /\ agent_result' = agent_error_result(exhausted_message)
                /\ retries' = retries + 1
                /\ trace' = Append(trace, "REJECTED")
                /\ pc' = "execution"
                /\ UNCHANGED retry_prompts
           ELSE /\ retries' = retries + 1
                /\ retry_prompts' = Append(retry_prompts, v.message)
                /\ trace' = Append(trace, "RETRYING")
                /\ pc' = "agent_request"
                /\ UNCHANGED agent_result
    /\ UNCHANGED <<request_vars, context_vars, schema_to_use, output, outputs, calls,
                   tail_vars, ex_vars>>

(***************************************************************************)
(* policy_sql_agent.py run_policy_sql_agent_with_execution                 *)
(***************************************************************************)
\* the branches that do not call the adapter
NoExecution ==
    /\ pc = "execution"
    /\ LET sql_query == dict_get(agent_result, "sql_query", PyNone)
       IN  /\ truthy(dict_get(agent_result, "error", PyNone))
              \/ ~(truthy(sql_query) /\ execute_query)
           /\ sql_result' =
                IF truthy(dict_get(agent_result, "error", PyNone))
                THEN dict_merge(agent_result, execution_fields_none)
                ELSE IF truthy(sql_query) /\ ~execute_query
                THEN dict_merge(agent_result, execution_fields_none)
                ELSE agent_result
    /\ pc' = "combine"
    /\ UNCHANGED <<request_vars, context_vars, agent_vars, adapter_calls, execution_outcome,
                   result, ex_vars>>

\* execute_sql_query_fast returns
Execution ==
    /\ pc = "execution"
    /\ ~truthy(dict_get(agent_result, "error", PyNone))
    /\ truthy(dict_get(agent_result, "sql_query", PyNone)) /\ execute_query
    /\ \E execution_result \in ExecutionResults :
          /\ sql_result' =
                IF execution_read_raises(execution_result)
                THEN dict_merge(agent_result,
                         execution_fields_raised("object of type 'NoneType' has no len()"))
                ELSE dict_merge(agent_result, execution_fields_of(execution_result))
          /\ execution_outcome' = [kind |-> "returned", value |-> execution_result]
    /\ adapter_calls' = adapter_calls + 1
    /\ pc' = "combine"
    /\ UNCHANGED <<request_vars, context_vars, agent_vars, result, ex_vars>>

\* execute_sql_query_fast raising, called whatever the generator returned
ExecutionRaisesUnguarded ==
    /\ pc = "execution"
    /\ \E e \in ExecutionErrors :
          /\ sql_result' = dict_merge(agent_result, execution_fields_raised(e))
          /\ execution_outcome' = [kind |-> "raised", error |-> e]
    /\ adapter_calls' = adapter_calls + 1
    /\ pc' = "combine"
    /\ UNCHANGED <<request_vars, context_vars, agent_vars, result, ex_vars>>

\* execute_sql_query_fast raises
ExecutionRaises ==
    /\ pc = "execution"
    /\ ~truthy(dict_get(agent_result, "error", PyNone))
    /\ truthy(dict_get(agent_result, "sql_query", PyNone)) /\ execute_query
    /\ \E e \in ExecutionErrors :
          /\ sql_result' = dict_merge(agent_result, execution_fields_raised(e))
          /\ execution_outcome' = [kind |-> "raised", error |-> e]
    /\ adapter_calls' = adapter_calls + 1
    /\ pc' = "combine"
    /\ UNCHANGED <<request_vars, context_vars, agent_vars, result, ex_vars>>

(***************************************************************************)
(* api.py onyx_chat_with_sql_generation, the envelope                      *)
(***************************************************************************)
Combine ==
    /\ pc = "combine"
    /\ result' = combine_results(prompt, onyx_response, relevant_tables, sql_result,
                                 execute_query)
    /\ pc' = "done"
    /\ UNCHANGED <<request_vars, context_vars, agent_vars, sql_result, adapter_calls,
                   execution_outcome, ex_vars>>

Next ==
    \/ ContextRetrieved
    \/ ContextFailed
    \/ AgentEntry
    \/ ModelRequest
    \/ ModelRequestFails
    \/ Validate
    \/ NoExecution
    \/ Execution
    \/ ExecutionRaises
    \/ Combine

Spec == Init /\ [][Next]_vars

\* the event loop runs every step that is ready
FairSpec == Spec /\ WF_vars(Next)

(***************************************************************************)
(* The extractor alone, on texts built from fragments                      *)
(***************************************************************************)
ExtractInit ==
    /\ prompt = ""
    /\ execute_query = FALSE
    /\ google_api_key = TRUE
    /\ schema_file = SchemaDocument
    /\ table_order \in TableOrders
    /\ pc = "extractor"
    /\ IdleState
    /\ ex_text = ""
    /\ ex_frags = 0
    /\ ex_tables = NotRun
    /\ ex_input = NoInput
    /\ fs_count = 0
    /\ fs_result = ""
    /\ requests = <<>>

AddFragment ==
    /\ pc = "extractor"
    /\ ex_tables = NotRun
    /\ ex_frags < MaxFrags
    /\ \E f \in Fragments : ex_text' = ex_text \o f
    /\ ex_frags' = ex_frags + 1
    /\ UNCHANGED <<request_vars, pc, context_vars, agent_vars, tail_vars, ex_tables,
                   ex_input, fs_count, fs_result, requests>>

\* the call on the text built so far
RunExtract ==
    /\ pc = "extractor"
    /\ ex_tables = NotRun
    /\ ex_input' = PyStr(ex_text)
    /\ ex_tables' = extract_table_names_call(PyStr(ex_text), table_order)
    /\ UNCHANGED <<request_vars, pc, context_vars, agent_vars, tail_vars, ex_text,
                   ex_frags, fs_count, fs_result, requests>>

\* the call on a value that is not a text
RunExtractNoText ==
    /\ pc = "extractor"
    /\ ex_tables = NotRun
    /\ ex_frags = 0
    /\ ex_input' = PyNone
    /\ ex_tables' = extract_table_names_call(PyNone, table_order)
    /\ UNCHANGED <<request_vars, pc, context_vars, agent_vars, tail_vars, ex_text,
                   ex_frags, fs_count, fs_result, requests>>

ExtractNext == AddFragment \/ RunExtract \/ RunExtractNoText

ExtractSpec == ExtractInit /\ [][ExtractNext]_vars

(***************************************************************************)
(* The schema filter alone, on schemas built from lines, followed by the   *)
(* generator's choice of schema                                            *)
(***************************************************************************)
FilterInit ==
    /\ prompt = "active policy premium"
    /\ execute_query = FALSE
    /\ google_api_key = TRUE
    /\ schema_file = ""
    /\ table_order = SourceOrder
    /\ pc = "filter"
    /\ onyx_response = ""
    /\ relevant_tables \in WantedLists
    /\ context_failed = FALSE
    /\ schema_to_use = ""
    /\ output = NoOutput
    /\ outputs = <<>>
    /\ retries = 0
    /\ retry_prompts = <<>>
    /\ calls = 0
    /\ trace = <<>>
    /\ agent_result = NoDict
    /\ sql_result = NoDict
    /\ adapter_calls = 0
    /\ execution_outcome = NoOutcome
    /\ result = NoDict
    /\ ex_text = ""
    /\ ex_frags = 0
    /\ ex_tables = NotRun
    /\ ex_input = NoInput
    /\ fs_count = 0
    /\ fs_result = ""
    /\ requests = <<>>

\* one more line of the schema document
AddLine ==
    /\ pc = "filter"
    /\ fs_count < MaxLines
    /\ \E line \in SchemaLines :
          schema_file' = IF fs_count = 0 THEN line ELSE schema_file \o "\n" \o line
    /\ fs_count' = fs_count + 1
    /\ UNCHANGED <<prompt, execute_query, google_api_key, table_order, pc, context_vars,
                   agent_vars, tail_vars, ex_text, ex_frags, ex_tables, ex_input,
                   fs_result, requests>>

\* filter_schema_by_tables on the schema and the list as they are
RunFilter ==
    /\ pc = "filter"
    /\ fs_result' = filter_schema_by_tables(schema_file, relevant_tables)
    /\ pc' = "generate"
    /\ UNCHANGED <<request_vars, context_vars, agent_vars, tail_vars, ex_text, ex_frags,
                   ex_tables, ex_input, fs_count, requests>>

FilterNext == AddLine \/ RunFilter \/ AgentEntry

FilterSpec == FilterInit /\ [][FilterNext]_vars

(***************************************************************************)
(* Two requests on one event loop.  A coroutine runs without interruption  *)
(* between two awaits, so a request takes one step when                    *)
(* create_chat_session resumes it and one step for each response of the    *)
(* model that agent.run awaits; execute_sql_query_fast is an ordinary call *)
(* inside the last of these steps.  The schema file, the environment and   *)
(* the set of valid names are read by both requests.                       *)
(***************************************************************************)
Requesters == {1, 2}

ConcurrentPrompts == {"active policy premium", "opportunity premium"}

\* what create_chat_session does for a request
ChatResponses ==
    {[kind |-> "text", v |-> "Relevant tables:\n1. policy (core)"],
     [kind |-> "text", v |-> "policy and company data"],
     [kind |-> "error", v |-> "401 Unauthorized"]}

\* what the model does for one request of agent.run
ModelResponses ==
    {[kind |-> "output", error |-> "",
      output |-> PolicyQuerySuccess("SELECT * FROM policy", "uses lookup_data", "")],
     [kind |-> "output", error |-> "",
      output |-> PolicyQuerySuccess("UPDATE policy SET x=1", "uses lookup_data", "")],
     [kind |-> "output", error |-> "",
      output |-> PolicyQueryError("ambiguous", "add a table name")],
     [kind |-> "error", error |-> "503 model overloaded", output |-> NoOutput]}

\* what execute_sql_query_fast does when called: it returns rows, reports a
\* failure, or raises
AdapterResponses ==
    {[kind |-> "returned", value |-> execution_result] :
        execution_result \in {x \in ExecutionResults : x.success => truthy(x.data)}}
      \cup {[kind |-> "raised", error |-> e] : e \in ExecutionErrors}

\* the locals of a request that has just been received
new_request(prompt_, execute_query_) ==
    [pc |-> "context", prompt |-> prompt_, execute_query |-> execute_query_,
     onyx_response |-> "", relevant_tables |-> <<>>, schema_to_use |-> "",
     retries |-> 0, result |-> NoDict,
     heard_context |-> [kind |-> "none", v |-> ""], heard_outputs |-> <<>>,
     heard_execution |-> NoOutcome]

\* the locals of request r with the tables of the first request
request_locals_shared_tables(store, r) ==
    [store[r] EXCEPT !.relevant_tables = store[1].relevant_tables]

\* the locals of request r: the names of its own coroutine frames
request_locals(store, r) == store[r]

\* the early returns of run_policy_sql_agent for a prompt
request_entry_error(prompt_) ==
    IF str_strip(prompt_) = "" THEN "Prompt cannot be empty."
    ELSE IF ~google_api_key THEN "GOOGLE_API_KEY must be set in environment variables."
    ELSE IF schema_file = "" THEN "Could not load policy schema"
    ELSE ""

\* does run_policy_sql_agent_with_execution call execute_sql_query_fast
adapter_called(agent_result_, execute_query_) ==
    /\ ~truthy(dict_get(agent_result_, "error", PyNone))
    /\ truthy(dict_get(agent_result_, "sql_query", PyNone))
    /\ execute_query_

\* what run_policy_sql_agent_with_execution returns once run_policy_sql_agent
\* returned agent_result_, response being what the adapter did if called
with_execution(agent_result_, execute_query_, response) ==
    IF truthy(dict_get(agent_result_, "error", PyNone))
    THEN dict_merge(agent_result_, execution_fields_none)
    ELSE IF adapter_called(agent_result_, execute_query_)
    THEN IF response.kind = "raised"
         THEN dict_merge(agent_result_, execution_fields_raised(response.error))
         ELSE IF execution_read_raises(response.value)
         THEN dict_merge(agent_result_,
                  execution_fields_raised("object of type 'NoneType' has no len()"))
         ELSE dict_merge(agent_result_, execution_fields_of(response.value))
    ELSE IF truthy(dict_get(agent_result_, "sql_query", PyNone))
    THEN dict_merge(agent_result_, execution_fields_none)
    ELSE agent_result_

\* the context text and the table list after step 1 and 2
context_text_of(response) ==
    IF response.kind = "text" THEN response.v
    ELSE onyx_unavailable(chat_service_error(response.v))

context_tables_of(response) ==
    IF response.kind = "text"
    THEN extract_table_names_from_onyx_response(response.v, table_order)
    ELSE fallback_relevant_tables

\* the request's locals when it returns its envelope
request_returns(q, agent_result_, response) ==
    [q EXCEPT !.pc = "done",
              !.heard_execution = response,
              !.result = combine_results(q.prompt, q.onyx_response, q.relevant_tables,
                             with_execution(agent_result_, q.execute_query, response),
                             q.execute_query)]

\* what the adapter can do for a request whose generation returned
adapter_responses_for(agent_result_, execute_query_) ==
    IF adapter_called(agent_result_, execute_query_) THEN AdapterResponses
    ELSE {NoOutcome}

ConcurrentInit ==
    /\ prompt = ""
    /\ execute_query = FALSE
    /\ google_api_key \in BOOLEAN
    /\ schema_file = SchemaDocument
    /\ table_order \in TableOrders
    /\ pc = "concurrent"
    /\ IdleState
    /\ ex_text = ""
    /\ ex_frags = 0
    /\ ex_tables = NotRun
    /\ ex_input = NoInput
    /\ fs_count = 0
    /\ fs_result = ""
    /\ requests \in [Requesters ->
                        {new_request(p, e) : p \in ConcurrentPrompts, e \in BOOLEAN}]
    /\ requests[1].prompt = "active policy premium"

\* create_chat_session resumes request r: steps 1 and 2, then
\* run_policy_sql_agent up to its first await, or to the return of the
\* envelope when it returns early
RequestContext(r) ==
    /\ pc = "concurrent"
    /\ request_locals(requests, r).pc = "context"
    /\ \E response \in ChatResponses :
          LET q == [request_locals(requests, r) EXCEPT
                        !.heard_context = response,
                        !.onyx_response = context_text_of(response),
                        !.relevant_tables = context_tables_of(response)]
              error == request_entry_error(q.prompt)
          IN  requests' =
                [requests EXCEPT ![r] =
                    IF error # ""
                    THEN request_returns(q, error_only_result(error), NoOutcome)
                    ELSE [q EXCEPT !.pc = "generation",
                                   !.schema_to_use =
                                       schema_to_use_for(schema_file, q.relevant_tables)]]
    /\ UNCHANGED <<request_vars, pc, context_vars, agent_vars, tail_vars, ex_text,
                   ex_frags, ex_tables, ex_input, fs_count, fs_result>>

\* a response of the model resumes request r inside agent.run: the output
\* validator, then either the next request of the retry loop or the rest of
\* the pipeline up to the return of the envelope
RequestResponse(r) ==
    /\ pc = "concurrent"
    /\ request_locals(requests, r).pc = "generation"
    /\ \E response \in ModelResponses :
          LET q == [request_locals(requests, r) EXCEPT
                        !.heard_outputs = Append(@, response)]
              v == validate_policy_output(q.prompt, response.output)
              retry == /\ response.kind = "output"
                       /\ v.raised
                       /\ ~retries_exhausted(q.retries + 1)
              agent_result_ ==
                  IF response.kind = "error" THEN agent_error_result(response.error)
                  ELSE IF ~v.raised THEN agent_return(v.output)
                  ELSE agent_error_result(exhausted_message)
          IN  IF retry
              THEN requests' = [requests EXCEPT ![r] = [q EXCEPT !.retries = @ + 1]]
              ELSE \E done \in adapter_responses_for(agent_result_, q.execute_query) :
                      requests' =
                        [requests EXCEPT ![r] = request_returns(q, agent_result_, done)]
    /\ UNCHANGED <<request_vars, pc, context_vars, agent_vars, tail_vars, ex_text,
                   ex_frags, ex_tables, ex_input, fs_count, fs_result>>

ConcurrentNext ==
    \/ \E r \in Requesters : RequestContext(r)
    \/ \E r \in Requesters : RequestResponse(r)

ConcurrentSpec == ConcurrentInit /\ [][ConcurrentNext]_vars

(***************************************************************************)
(* One request run alone on what it heard from the chat service, the model *)
(* and the adapter                                                         *)
(***************************************************************************)
\* run_policy_sql_agent on a prompt and the responses of the model in turn
agent_result_alone(prompt_, responses) ==
    LET run[k \in Nat, retries_ \in Nat] ==
            LET response == responses[k]
                v == validate_policy_output(prompt_, response.output)
            IN  IF response.kind = "error" THEN agent_error_result(response.error)
                ELSE IF ~v.raised THEN agent_return(v.output)
                ELSE IF retries_exhausted(retries_ + 1)
                THEN agent_error_result(exhausted_message)
                ELSE run[k + 1, retries_ + 1]
        error == request_entry_error(prompt_)
    IN  IF error # "" THEN error_only_result(error) ELSE run[1, 0]

\* onyx_chat_with_sql_generation from its first line to its return
envelope_alone(q) ==
    combine_results(q.prompt, context_text_of(q.heard_context),
        context_tables_of(q.heard_context),
        with_execution(agent_result_alone(q.prompt, q.heard_outputs), q.execute_query,
                       q.heard_execution),
        q.execute_query)

(***************************************************************************)
(* Properties                                                              *)
(***************************************************************************)
Last(q) == q[Len(q)]

\* run_policy_sql_agent has returned
Returned == pc \in {"execution", "combine", "done"}

\* run_policy_sql_agent returned a Success
ReturnedSuccess ==
    /\ Returned
    /\ dict_get(agent_result, "error", PyNone) = PyNone
    /\ dict_get(agent_result, "sql_query", PyNone).t = "str"

\* the generator's state after it validated the k-th output
Verdict(k) == trace[2 * k + 1]
Validated(k) == k <= Len(outputs) /\ Len(trace) >= 2 * k + 1

\* the text mentions the word, in any case
Mentions(text, word) == str_contains(str_lower(text), word)

IsSuccess(o) == o.type = "PolicyQuerySuccess"
StartsWithSelect(o) == str_startswith(str_upper(clean_sql_query(o.sql_query)), "SELECT")

\* the opportunity rule, in the words of the claims
OpportunityTableMissing(o) ==
    /\ \E w \in {"opportunity", "brokerage", "sales"} : Mentions(prompt, w)
    /\ ~Mentions(clean_sql_query(o.sql_query), "opportunity")

\* C1: every element of the list the extractor returns is a member of the
\* known-table set, is lower-case, and occurs once in the list
C1_ExtractedTablesValid ==
    ex_tables # NotRun =>
        \A k \in 1..Len(ex_tables) :
            /\ ex_tables[k] \in valid_table_names
            /\ str_lower(ex_tables[k]) = ex_tables[k]
            /\ \A m \in 1..Len(ex_tables) : m # k => ex_tables[m] # ex_tables[k]

\* a text with an upper-case mention and a sentence match, from which two
\* tables were extracted
C1_Witness ==
    /\ ex_tables # NotRun
    /\ Len(ex_tables) >= 2
    /\ sentence_matches(ex_text, 1) = <<"COMPANY">>
    /\ ex_tables[1] = "company"

\* the statements the system prompt forbids
mutating_statements ==
    {"INSERT", "UPDATE", "DELETE", "ALTER", "DROP", "CREATE", "TRUNCATE"}

\* C2: the sql_query of a Success the generator returns contains no
\* data-mutating statement
C2_SuccessHasNoMutatingStatement ==
    ReturnedSuccess =>
        \A w \in mutating_statements : ~str_contains(str_upper(agent_result.sql_query.v), w)

\* the leading run of word characters
first_token(q) == SubSeq(q, 1, RunEnd(q, 1, WordChars))

\* C3: the sql_query of a Success the generator returns is non-empty, has
\* no backslash and no surrounding whitespace, and its first token is SELECT
C3_SuccessFirstTokenIsSelect ==
    ReturnedSuccess =>
        LET q == agent_result.sql_query.v
        IN  /\ q # ""
            /\ ~str_contains(q, "\\")
            /\ str_strip(q) = q
            /\ str_upper(first_token(q)) = "SELECT"

\* C4 as stated: after a Failure the capability was invoked once and the
\* caller receives error_message and suggestion unchanged
C4_FailureFieldsUnchanged ==
    (Returned /\ output.type = "PolicyQueryError" /\ outputs[1] = output) =>
        /\ calls = 1
        /\ dict_get(agent_result, "error", PyNone) = PyStr(output.error_message)
        /\ dict_get(agent_result, "suggestion", PyNone) = PyStr(output.suggestion)

\* C4 amended: a Failure is not retried (it ends the run, invoked once when
\* it is the first answer), and the caller receives the single error string
\* error_message + " " + suggestion with the three query fields None
C4_FailurePassedThrough ==
    (Returned /\ output.type = "PolicyQueryError") =>
        /\ Last(outputs) = output
        /\ Last(trace) = "REJECTED"
        /\ calls = Len(outputs)
        /\ calls = retries + 1
        /\ (outputs[1] = output => calls = 1 /\ retry_prompts = <<>>)
        /\ agent_result =
             [sql_query |-> PyNone, explanation |-> PyNone, business_context |-> PyNone,
              error |-> PyStr(output.error_message \o " " \o output.suggestion)]

\* a first-answer Failure with a suggestion reached the envelope
C4_Witness ==
    /\ pc = "done"
    /\ calls = 1
    /\ output = PolicyQueryError("ambiguous", "add a table name")
    /\ result.error = PyStr("ambiguous add a table name")

\* C5: a non-SELECT Success followed by a valid Success: VALIDATING ->
\* RETRYING -> VALIDATING -> ACCEPTED, one re-invocation with the corrective
\* instruction, and the second result is returned
C5_RetryOnceThenAccept ==
    /\ (Validated(1) /\ IsSuccess(outputs[1]) /\ ~StartsWithSelect(outputs[1])) =>
           /\ Verdict(1) = "RETRYING"
           /\ retry_prompts[1] = "Please create a SELECT query for policy data"
    /\ (/\ Returned
        /\ Len(outputs) >= 2
        /\ IsSuccess(outputs[1]) /\ ~StartsWithSelect(outputs[1])
        /\ IsSuccess(outputs[2]) /\ StartsWithSelect(outputs[2])
        /\ ~OpportunityTableMissing(outputs[2])) =>
           /\ trace = <<"DRAFTING", "VALIDATING", "RETRYING", "VALIDATING", "ACCEPTED">>
           /\ calls = 2
           /\ Len(retry_prompts) = 1
           /\ agent_result =
                [sql_query |-> PyStr(clean_sql_query(outputs[2].sql_query)),
                 explanation |-> PyStr(outputs[2].explanation),
                 business_context |-> PyStr(outputs[2].business_context),
                 error |-> PyNone]

\* the stub of the specification: UPDATE first, then a SELECT
C5_Witness ==
    /\ pc = "done"
    /\ Len(outputs) = 2
    /\ outputs[1] = PolicyQuerySuccess("UPDATE policy SET x=1", "uses lookup_data", "")
    /\ outputs[2] = PolicyQuerySuccess("SELECT * FROM policy", "uses lookup_data", "")
    /\ result.sql_query = PyStr("SELECT * FROM policy")

\* C6: whatever the capability answers, a run invokes it at most twice and
\* then ends in ACCEPTED or REJECTED
C6_BoundedRetriesAndTermination ==
    /\ [](calls <= 2)
    /\ <>(pc = "done" /\ Last(trace) \in {"ACCEPTED", "REJECTED"})

\* two invalid answers in a row, and the run has ended
C6_Witness ==
    /\ pc = "done"
    /\ calls = 2
    /\ Len(outputs) = 2
    /\ \A k \in 1..2 : IsSuccess(outputs[k]) /\ ~StartsWithSelect(outputs[k])

\* every answer of the run was rejected by the validator
EveryOutputRejected ==
    /\ Len(outputs) = calls
    /\ \A k \in 1..Len(outputs) : validate_policy_output(prompt, outputs[k]).raised

\* C7: when the retries are exhausted the generator ends in REJECTED with a
\* generic error, the three query fields None, and the invalid query is not
\* returned
C7_ExhaustionIsGenericFailure ==
    (Returned /\ calls = 2 /\ EveryOutputRejected) =>
        /\ Last(trace) = "REJECTED"
        /\ agent_result.sql_query = PyNone
        /\ agent_result.explanation = PyNone
        /\ agent_result.business_context = PyNone
        /\ agent_result.error.t = "str"
        /\ str_startswith(agent_result.error.v, "SQL agent error: ")
        /\ \A k \in 1..Len(outputs) :
               ~str_contains(agent_result.error.v, outputs[k].sql_query)
        /\ pc = "done" =>
               /\ result.sql_query = PyNone
               /\ result.error = agent_result.error

\* the envelope after two rejected answers
C7_Witness ==
    /\ pc = "done"
    /\ retries = 2
    /\ EveryOutputRejected
    /\ result.error = PyStr("SQL agent error: " \o exhausted_message)

\* the prompt concerns policy terms and the query never names the policy
\* table, or concerns endorsements and the query never names that table
DomainTableMissing(o) ==
    LET q == clean_sql_query(o.sql_query)
    IN  \/ /\ \E w \in {"policy", "premium", "insured"} : Mentions(prompt, w)
           /\ ~Mentions(q, "policy")
        \/ /\ Mentions(prompt, "endorsement")
           /\ ~Mentions(q, "endorsement")

\* C8 as stated: a SELECT that misses the policy or the endorsement table
\* its prompt concerns is not accepted
C8_DomainTableRetried ==
    \A k \in 1..2 :
        (Validated(k) /\ IsSuccess(outputs[k]) /\ StartsWithSelect(outputs[k])
           /\ DomainTableMissing(outputs[k])) => Verdict(k) # "ACCEPTED"

\* C8 amended: such a SELECT is accepted without a retry, unless the prompt
\* also contains opportunity, brokerage or sales and the query does not
\* contain opportunity
C8_DomainTableNotChecked ==
    \A k \in 1..2 :
        (Validated(k) /\ IsSuccess(outputs[k]) /\ StartsWithSelect(outputs[k])
           /\ DomainTableMissing(outputs[k])) =>
               (Verdict(k) = "ACCEPTED" <=> ~OpportunityTableMissing(outputs[k]))

\* a policy prompt whose query names only the company table was accepted
C8_Witness ==
    /\ prompt = "active policy premium"
    /\ Validated(1)
    /\ outputs[1] = PolicyQuerySuccess("SELECT * FROM company", "uses lookup_data", "")
    /\ Verdict(1) = "ACCEPTED"

\* C9: a SELECT for a prompt with opportunity, brokerage or sales that does
\* not contain opportunity is sent back with the corrective instruction;
\* every other SELECT is accepted
C9_OpportunityRule ==
    \A k \in 1..2 :
        (Validated(k) /\ IsSuccess(outputs[k]) /\ StartsWithSelect(outputs[k])) =>
            IF OpportunityTableMissing(outputs[k])
            THEN /\ Verdict(k) # "ACCEPTED"
                 /\ k = 1 =>
                      /\ Verdict(k) = "RETRYING"
                      /\ retry_prompts[1] =
                           "Opportunity-related queries should reference the opportunity table"
            ELSE Verdict(k) = "ACCEPTED"

\* a sales prompt whose query names only the policy table was sent back
C9_Witness ==
    /\ prompt = "Sales report"
    /\ Validated(1)
    /\ outputs[1] = PolicyQuerySuccess("SELECT * FROM policy", "uses lookup_data", "")
    /\ Verdict(1) = "RETRYING"

\* C10: after a failed context retrieval the context text is a placeholder,
\* no table is extracted, the generator runs on the full schema, and the
\* envelope has an error only when generation failed
C10_ContextFailureDegrades ==
    context_failed =>
        /\ str_startswith(onyx_response, "Onyx service unavailable: ")
        /\ relevant_tables = <<>>
        /\ calls > 0 => schema_to_use = schema_file /\ schema_to_use # ""
        /\ pc = "done" =>
              /\ trace # <<>>
              /\ result.onyx_response = PyStr(onyx_response)
              /\ result.relevant_tables = PyList(<<>>)
              /\ result.error # PyNone => Last(trace) = "REJECTED"
              /\ Last(trace) = "ACCEPTED" =>
                    /\ result.error = PyNone
                    /\ result.sql_query = PyStr(clean_sql_query(output.sql_query))

\* generation succeeded although the context retrieval failed
C10_Witness ==
    /\ context_failed
    /\ pc = "done"
    /\ Last(trace) = "ACCEPTED"
    /\ result.error = PyNone
    /\ result.onyx_response =
         PyStr("Onyx service unavailable: Chat service error: 401 Unauthorized")

\* the adapter raised, or returned an outcome with success = false
ExecutionFailed ==
    \/ execution_outcome.kind = "raised"
    \/ execution_outcome.kind = "returned" /\ ~execution_outcome.value.success

\* C11: when execution was requested and the adapter raised or returned
\* success = false, the envelope keeps the generated sql_query, explanation
\* and business_context as generation produced them (texts, not null), has
\* execution_success false and a non-null execution_error, and its
\* generation-level error is null
C11_ExecutionFailureKeepsQuery ==
    (pc = "done" /\ ExecutionFailed) =>
        /\ execute_query
        /\ IsSuccess(output)
        /\ result.sql_query = PyStr(clean_sql_query(output.sql_query))
        /\ result.explanation = PyStr(output.explanation)
        /\ result.business_context = PyStr(output.business_context)
        /\ result.sql_query = agent_result.sql_query
        /\ result.execution_success = PyBool(FALSE)
        /\ result.execution_error # PyNone
        /\ result.error = PyNone

\* the adapter raised after a query was generated
C11_Witness ==
    /\ pc = "done"
    /\ execution_outcome = [kind |-> "raised", error |-> "connection refused"]
    /\ result.sql_query = PyStr("SELECT * FROM policy")
    /\ result.execution_success = PyBool(FALSE)
    /\ result.execution_error = PyStr("connection refused")

\* the request is answered and generation ended without a query
GenerationFailed == pc = "done" /\ trace # <<>> /\ Last(trace) = "REJECTED"

\* C12: when generation failed, whatever the execute flag, the envelope's
\* error is populated, the adapter was never called, and none of the eight
\* execution fields holds a value: each is None where the envelope has it
\* (it has all eight when execution was requested) and reads as None where
\* it does not
C12_GenerationFailureSkipsExecution ==
    GenerationFailed =>
        /\ truthy(result.error)
        /\ adapter_calls = 0
        /\ execution_outcome = NoOutcome
        /\ \A k \in execution_keys :
              /\ dict_get(result, k, PyNone) = PyNone
              /\ execute_query => k \in DOMAIN result /\ k \in DOMAIN sql_result

\* a refused request with execution requested
C12_Witness ==
    /\ GenerationFailed
    /\ execute_query
    /\ output = PolicyQueryError("ambiguous", "add a table name")
    /\ result.error = PyStr("ambiguous add a table name")
    /\ result.execution_success = PyNone
    /\ adapter_calls = 0

\* the request is answered, a query was generated and execution was not
\* requested
GeneratedNotExecuted ==
    pc = "done" /\ trace # <<>> /\ Last(trace) = "ACCEPTED" /\ ~execute_query

\* C13 as stated: when generation succeeded and execute is false, the
\* adapter is never called and the orchestrator's envelope carries the SQL
\* and the explanation together with every execution field, present and None
C13_ExecutionFieldsPresentAndNull ==
    GeneratedNotExecuted =>
        /\ adapter_calls = 0
        /\ result.sql_query = PyStr(clean_sql_query(output.sql_query))
        /\ result.explanation = PyStr(output.explanation)
        /\ \A k \in execution_keys : k \in DOMAIN result /\ result[k] = PyNone

\* C13 amended: when generation succeeded and execute is false, the adapter
\* is never called, the generator's result has every execution field set to
\* None when its query is not empty, and the orchestrator's envelope carries
\* the SQL and the explanation and none of the execution fields
C13_ExecutionFieldsLeftOut ==
    GeneratedNotExecuted =>
        /\ adapter_calls = 0
        /\ execution_outcome = NoOutcome
        /\ result.sql_query = PyStr(clean_sql_query(output.sql_query))
        /\ result.explanation = PyStr(output.explanation)
        /\ result.error = PyNone
        /\ truthy(result.sql_query) =>
              \A k \in execution_keys : k \in DOMAIN sql_result /\ sql_result[k] = PyNone
        /\ \A k \in execution_keys : k \notin DOMAIN result

\* a generated query returned without execution
C13_Witness ==
    /\ GeneratedNotExecuted
    /\ result.sql_query = PyStr("SELECT * FROM policy")
    /\ result.explanation = PyStr("uses lookup_data")
    /\ sql_result.execution_success = PyNone
    /\ "execution_success" \notin DOMAIN result

\* the fields every envelope is to have
envelope_keys ==
    {"user_query", "onyx_response", "relevant_tables", "sql_query", "explanation",
     "business_context", "error"}

\* C14: every returned envelope has the original prompt, the context text,
\* the extracted tables, and either the (sql_query, explanation,
\* business_context) triple or an error: no field is missing, and the fields
\* of the alternative that is not used are all None
C14_EnvelopeComplete ==
    pc = "done" =>
        /\ envelope_keys \subseteq DOMAIN result
        /\ result.user_query = PyStr(prompt)
        /\ result.onyx_response = PyStr(onyx_response)
        /\ result.relevant_tables = PyList(relevant_tables)
        /\ IF result.error # PyNone
           THEN /\ result.sql_query = PyNone
                /\ result.explanation = PyNone
                /\ result.business_context = PyNone
           ELSE /\ result.sql_query # PyNone
                /\ result.explanation # PyNone
                /\ result.business_context # PyNone

\* filter_schema_by_tables has returned
FilterRan == pc # "filter"

\* C15: filter_schema_by_tables returns full_schema unchanged when the
\* wanted list is empty or full_schema is empty, and the generator given an
\* empty table list drafts on the full schema without reporting an error
C15_FilterIdentityOnEmpty ==
    /\ (FilterRan /\ (relevant_tables = <<>> \/ schema_file = "")) =>
          fs_result = schema_file
    /\ (trace # <<>> /\ relevant_tables = <<>> /\ schema_file # "") =>
          /\ schema_to_use = schema_file
          /\ trace = <<"DRAFTING">>
          /\ agent_result = NoDict

\* the generator drafting on a three-line schema with no table wanted
C15_Witness ==
    /\ relevant_tables = <<>>
    /\ schema_file = "DATABASE SCHEMA\npolicy (policies)\n  id int"
    /\ fs_result = schema_file
    /\ schema_to_use = schema_file
    /\ trace = <<"DRAFTING">>

\* some line of the schema opens the section of a wanted table
SectionMatches ==
    LET lines == str_split_lines(schema_file)
    IN  \E i \in 1..Len(lines) : is_table_definition_line(lines[i], relevant_tables)

\* C16: for a non-empty schema and any wanted list the schema filter never
\* returns the empty string, and when no section matches a wanted name its
\* result is the full schema
C16_FilterNeverEmpty ==
    (FilterRan /\ schema_file # "") =>
        /\ fs_result # ""
        /\ ~SectionMatches => fs_result = schema_file

\* the sections of SchemaDocument, by table
schema_sections ==
    [policy |-> "policy (policies)\n  id int\n  status_lid int",
     opportunity |-> "opportunity\n  remarks text",
     lookup_data |-> "lookup_data\n  value text",
     company |-> "company\n  name text"]

\* the generator chose its schema for a non-empty list of extracted tables
SchemaChosenForTables ==
    relevant_tables # <<>> /\ trace # <<>> /\ trace[1] = "DRAFTING"

\* C17: whenever the list of extracted tables is not empty, the list passed
\* to the schema filter holds lookup_data and every extracted table, and the
\* schema used for generation contains the lookup_data section and the
\* section of every extracted table that the schema has
C17_LookupAlwaysWanted ==
    SchemaChosenForTables =>
        LET wanted == enhanced_tables(relevant_tables)
            names == {wanted[k] : k \in 1..Len(wanted)}
        IN  /\ "lookup_data" \in names
            /\ \A k \in 1..Len(relevant_tables) : relevant_tables[k] \in names
            /\ str_contains(schema_to_use, schema_sections["lookup_data"])
            /\ \A k \in 1..Len(relevant_tables) :
                  relevant_tables[k] \in DOMAIN schema_sections =>
                      str_contains(schema_to_use, schema_sections[relevant_tables[k]])

\* only policy was extracted: the schema used has the policy and the
\* lookup_data sections and not the opportunity section
C17_Witness ==
    /\ SchemaChosenForTables
    /\ relevant_tables = <<"policy">>
    /\ str_contains(schema_to_use, schema_sections["policy"])
    /\ str_contains(schema_to_use, schema_sections["lookup_data"])
    /\ ~str_contains(schema_to_use, schema_sections["opportunity"])
    /\ str_contains(schema_file, schema_sections["opportunity"])

\* the tables found by the three patterns that scan the text from left to
\* right, before the loop over valid_table_names
pattern_tables(s) ==
    LET m1 == append_valid(<<>>, structured_matches(s, 1))
        m2 == append_valid(m1, backtick_matches(s, 1))
    IN  append_valid(m2, sentence_matches(s, 1))

\* the position of the first direct mention of table_name in s
first_direct_mention(s, table_name) ==
    First({i \in 1..(Len(s) - Len(table_name) + 1) :
              /\ MatchesAt(s, i, table_name)
              /\ WordBoundary(s, i)
              /\ WordBoundary(s, i + Len(table_name))})

\* the extractor ran on a text
ExtractedFromText == ex_tables # NotRun /\ ex_input.t = "str"

\* C18: the extractor is deterministic and order-preserving: its result on
\* a text is the same whatever order the set of valid names is visited in,
\* and the tables found only by the final scan over the valid names come in
\* the order of their first occurrence in the text
C18_DeterministicAndOrdered ==
    ExtractedFromText =>
        /\ \A order \in TableOrders :
              ex_tables = extract_table_names_from_onyx_response(ex_text, order)
        /\ LET found == pattern_tables(ex_text)
           IN  \A j, k \in (Len(found) + 1)..Len(ex_tables) :
                  j < k => first_direct_mention(ex_text, ex_tables[j])
                             < first_direct_mention(ex_text, ex_tables[k])

\* the extractor ran on a value whose scan raises
ExtractedFromNonText == ex_tables # NotRun /\ scan_raises(ex_input)

\* C19: the extractor never raises: it returns a list for every input, a
\* list of valid names when its scans go through, and the empty list when a
\* scan fails, as the first scan does on a value that is not a text
C19_ExtractorNeverRaises ==
    ex_tables # NotRun =>
        /\ ex_tables \in Seq(valid_table_names)
        /\ ExtractedFromNonText => ex_tables = <<>>

\* the extractor was given None
C19_Witness ==
    /\ ExtractedFromNonText
    /\ ex_input = PyNone
    /\ ex_tables = <<>>

\* the schema resource could not be loaded or the credential is missing
ConfigurationMissing == schema_file = "" \/ ~google_api_key

\* C20: when the schema cannot be loaded or the credential is missing, the
\* request ends with an error result of the generation stage: the
\* capability is never invoked and never retried, the adapter is never
\* invoked, and the envelope carries the error
C20_ConfigurationErrorIsTerminal ==
    ConfigurationMissing =>
        /\ calls = 0
        /\ retries = 0
        /\ adapter_calls = 0
        /\ trace \in {<<>>, <<"REJECTED">>}
        /\ Returned =>
              /\ trace = <<"REJECTED">>
              /\ agent_result = error_only_result(entry_error)
              /\ entry_error # ""
        /\ pc = "done" => result.error = PyStr(entry_error) /\ truthy(result.error)

\* a request with a prompt and a credential and no schema has been answered
C20_Witness ==
    /\ pc = "done"
    /\ prompt = "active policy premium"
    /\ google_api_key
    /\ schema_file = ""
    /\ result.error = PyStr("Could not load policy schema")
    /\ calls = 0
    /\ adapter_calls = 0

\* the step of the request a position belongs to: context retrieval with
\* table extraction, query generation, execution, the envelope
stage(position) ==
    CASE position = "context" -> 1
      [] position \in {"generate", "agent_request", "agent_validate"} -> 2
      [] position = "execution" -> 3
      [] position = "combine" -> 4
      [] position = "done" -> 5

\* C21: within one request the steps go forward only: the context text and
\* the extracted tables are set in the one step that leaves context
\* retrieval, model requests and retries happen only inside generation, the
\* adapter is invoked at most once and only when generation returned a
\* validated Success with execute set, and no step goes back to an earlier
\* one
C21_StepsForward ==
    [][/\ stage(pc') >= stage(pc)
       /\ <<onyx_response, relevant_tables, context_failed>>'
              # <<onyx_response, relevant_tables, context_failed>> =>
            pc = "context" /\ stage(pc') = 2
       /\ <<calls, retries, outputs, schema_to_use>>'
              # <<calls, retries, outputs, schema_to_use>> =>
            stage(pc) = 2
       /\ adapter_calls' # adapter_calls =>
            /\ adapter_calls = 0 /\ adapter_calls' = 1
            /\ pc = "execution" /\ stage(pc') = 4
            /\ execute_query
            /\ Last(trace) = "ACCEPTED"
            /\ ReturnedSuccess
       /\ result' # result => pc = "combine" /\ pc' = "done"]_vars

\* a request that extracted a table, retried once, executed its query and
\* was answered
C21_Witness ==
    /\ pc = "done"
    /\ relevant_tables # <<>>
    /\ retries = 1
    /\ calls = 2
    /\ adapter_calls = 1
    /\ result.execution_success = PyBool(TRUE)

\* C22: under every interleaving of two requests at their awaits, each
\* request's context text, table list, schema and retry counter are the
\* ones its own inputs give, and the envelope it returns is the envelope of
\* the same request run alone on the same responses of the chat service,
\* the model and the adapter
C22_RequestsIndependent ==
    pc = "concurrent" =>
        \A r \in Requesters :
            LET q == requests[r]
            IN  /\ q.pc # "context" =>
                      /\ q.onyx_response = context_text_of(q.heard_context)
                      /\ q.relevant_tables = context_tables_of(q.heard_context)
                /\ q.pc = "generation" =>
                      /\ q.schema_to_use =
                           schema_to_use_for(schema_file,
                                             context_tables_of(q.heard_context))
                      /\ q.retries = Len(q.heard_outputs)
                /\ q.pc = "done" => q.result = envelope_alone(q)

\* the second request ran from its first step to its envelope while the
\* first, with another table list, waits for the model after a retry
C22_Witness ==
    /\ pc = "concurrent"
    /\ requests[1].pc = "generation"
    /\ requests[1].retries = 1
    /\ requests[1].relevant_tables = <<"policy">>
    /\ requests[2].pc = "done"
    /\ requests[2].relevant_tables # <<"policy">>
    /\ Len(requests[2].relevant_tables) = 2
    /\ requests[2].result.error = PyNone
    /\ requests[2].result.relevant_tables = PyList(requests[2].relevant_tables)

\* a line that is not indented and not blank begins a section
begins_section(line) == ~str_startswith(line, " ") /\ str_strip(line) # ""

\* the last line of the section that begins at line h
section_end(lines, h) ==
    Final({e \in h..Len(lines) : \A i \in (h + 1)..e : ~begins_section(lines[i])})

\* the text of the section that begins at line h
section_text(lines, h) == str_join_lines(SubSeq(lines, h, section_end(lines, h)))

\* the line mentions a wanted name, in any case
MentionsWanted(line) ==
    \E k \in 1..Len(relevant_tables) : Mentions(line, str_lower(relevant_tables[k]))

\* the filter ran past its first test
FilterScanned == FilterRan /\ relevant_tables # <<>> /\ schema_file # ""

\* the lines of a text, as a set
LinesOf(text) ==
    LET lines == str_split_lines(text) IN {lines[i] : i \in 1..Len(lines)}

\* C23 as stated: the filter keeps every section in which a wanted name
\* occurs anywhere, in any case, also when it occurs only in an indented
\* line of the body
C23_NameAnywhereSelectsSection ==
    FilterScanned =>
        LET lines == str_split_lines(schema_file)
        IN  \A h \in 1..Len(lines) :
                (/\ begins_section(lines[h])
                 /\ \E i \in h..section_end(lines, h) : MentionsWanted(lines[i]))
                    => str_contains(fs_result, section_text(lines, h))

\* C23 amended: the filter keeps every section whose first line mentions a
\* wanted name, in any case; a section whose first line mentions none and is
\* neither upper-case nor a separator loses that line, also when a wanted
\* name occurs in an indented line of its body
C23_HeaderSelectsSection ==
    FilterScanned =>
        LET lines == str_split_lines(schema_file)
        IN  \A h \in 1..Len(lines) :
                begins_section(lines[h]) =>
                    /\ MentionsWanted(lines[h]) =>
                          str_contains(fs_result, section_text(lines, h))
                    /\ (~MentionsWanted(lines[h]) /\ ~is_header_or_separator(lines[h])) =>
                          lines[h] \notin LinesOf(fs_result)

\* the lookup_data section mentions policy in its body only and is dropped;
\* the policy section is kept under a name written with a capital
C23_Witness ==
    /\ FilterScanned
    /\ schema_file = "lookup_data\n  policy_id int\npolicy (policies)"
    /\ relevant_tables = <<"Policy", "company">>
    /\ fs_result = "policy (policies)"

\* the positions of the lines the loop of filter_schema_by_tables appends
kept_lines(lines, tables) ==
    LET include_section[i \in 0..Len(lines)] ==
            IF i = 0 THEN FALSE
            ELSE IF is_table_definition_line(lines[i], tables) THEN TRUE
            ELSE IF is_header_or_separator(lines[i]) THEN include_section[i - 1]
            ELSE IF begins_section(lines[i]) THEN FALSE
            ELSE include_section[i - 1]
    IN  {i \in 1..Len(lines) : include_section[i] \/ is_header_or_separator(lines[i])}

\* the lines at the given positions, in their order
lines_at(lines, positions) ==
    LET pick[i \in 0..Len(lines)] ==
            IF i = 0 THEN <<>>
            ELSE pick[i - 1] \o (IF i \in positions THEN <<lines[i]>> ELSE <<>>)
    IN  pick[Len(lines)]

\* the filter's result is made of the lines at the kept positions
KeptLinesAreTheResult ==
    FilterScanned =>
        LET lines == str_split_lines(schema_file)
        IN  fs_result = str_join_lines(lines_at(lines, kept_lines(lines, relevant_tables)))

\* C24: every line that is not indented and not blank begins a section, and
\* no line of the body of a section whose first line mentions no wanted
\* name is in the filter's result, also when that first line is upper-case
\* or starts with ---
C24_OnlyWantedSections ==
    FilterScanned =>
        LET lines == str_split_lines(schema_file)
            kept == kept_lines(lines, relevant_tables)
        IN  \A h \in 1..Len(lines) :
                (begins_section(lines[h]) /\ ~MentionsWanted(lines[h])) =>
                    \A i \in (h + 1)..section_end(lines, h) :
                        str_strip(lines[i]) # "" => i \notin kept

\* len(x) of a list, 0 of None
count_of(x) == IF x.t = "list" THEN Len(x.v) ELSE 0

\* C25: when the adapter returned, the envelope's execution fields mirror
\* its outcome: for success = true, also with zero rows or no row data,
\* execution_success is true, row_count and column_count are the numbers of
\* rows and columns returned (0 for none) and execution_error is None; for
\* success = false, execution_success is false and execution_error is the
\* adapter's error
C25_ExecutionFieldsMirrorOutcome ==
    (pc = "done" /\ execution_outcome.kind = "returned") =>
        LET execution_result == execution_outcome.value
        IN  IF execution_result.success
            THEN /\ result.execution_success = PyBool(TRUE)
                 /\ result.row_count = PyInt(count_of(execution_result.data))
                 /\ result.column_count = PyInt(count_of(execution_result.columns))
                 /\ result.execution_error = PyNone
            ELSE /\ result.execution_success = PyBool(FALSE)
                 /\ result.execution_error = execution_result.error

\* C26: what run_policy_sql_agent returns has either a non-empty error and
\* no usable sql_query, or no error and a non-empty sql_query; so
\* run_policy_sql_agent_with_execution never returns agent_result as it is,
\* and what it returns has all eight execution keys
C26_ErrorOrQuery ==
    /\ Returned =>
          LET error == dict_get(agent_result, "error", PyNone)
              sql_query == dict_get(agent_result, "sql_query", PyNone)
          IN  \/ truthy(error) /\ ~truthy(sql_query)
              \/ error = PyNone /\ truthy(sql_query)
    /\ pc \in {"combine", "done"} =>
          /\ execution_keys \subseteq DOMAIN sql_result
          /\ sql_result # agent_result

\* the model first returned a query that is empty once cleaned, then one
\* that was accepted
C26_Witness ==
    /\ pc = "done"
    /\ Len(outputs) = 2
    /\ outputs[1] = PolicyQuerySuccess("\\", "uses lookup_data", "")
    /\ agent_result.error = PyNone
    /\ truthy(agent_result.sql_query)
    /\ execution_keys \subseteq DOMAIN sql_result

\* C27: the lines the filter returns are lines of the schema at increasing
\* positions: it only drops lines, and it drops no blank line, no line that
\* starts with --- and no upper-case line
C27_OutputIsSubsequence ==
    FilterRan =>
        LET lines == str_split_lines(schema_file)
        IN  \E positions \in SUBSET (1..Len(lines)) :
                /\ fs_result = str_join_lines(lines_at(lines, positions))
                /\ \A i \in 1..Len(lines) :
                      (\/ str_strip(lines[i]) = ""
                       \/ str_startswith(lines[i], "---")
                       \/ str_isupper(lines[i])) => i \in positions

\* the company section is dropped, the blank line after it and the policy
\* line are kept
C27_Witness ==
    /\ FilterScanned
    /\ schema_file = "company\n\npolicy (policies)"
    /\ relevant_tables = <<"policy">>
    /\ fs_result = "\npolicy (policies)"

\* C28: filtering the filter's result again with the same wanted list
\* returns it unchanged
C28_FilterIdempotent ==
    FilterRan => filter_schema_by_tables(fs_result, relevant_tables) = fs_result

\* a result that is shorter than the schema and is not empty
C28_Witness ==
    /\ FilterScanned
    /\ schema_file = "company\n---\npolicy (policies)"
    /\ relevant_tables = <<"policy">>
    /\ fs_result = "---\npolicy (policies)"
    /\ filter_schema_by_tables(fs_result, relevant_tables) = fs_result

\* the known names that occur in the text as a word of their own, in any
\* case
standalone_tables(s) ==
    {t \in valid_table_names :
        \E i \in 1..(Len(s) - Len(t) + 1) :
            /\ MatchesAt(s, i, t)
            /\ WordBoundary(s, i)
            /\ WordBoundary(s, i + Len(t))}

\* the names in a list
names_of(tables) == {tables[k] : k \in 1..Len(tables)}

\* C29 as stated: as a set, the extractor's result is the set of known
\* names that occur in the text as a word of their own
C29_ResultIsStandaloneSet ==
    ExtractedFromText => names_of(ex_tables) = standalone_tables(ex_text)

\* C29 amended: the result holds every known name that occurs as a word of
\* its own and only known names; a name in it that does not occur as a word
\* of its own was found by the structured-list pattern, never by the
\* backtick or the sentence pattern alone; and on an ASCII text the result
\* is that set exactly
C29_ResultCoversStandaloneSet ==
    ExtractedFromText =>
        LET found == names_of(ex_tables)
            standalone == standalone_tables(ex_text)
            structured == names_of(append_valid(<<>>, structured_matches(ex_text, 1)))
            backtick == names_of(append_valid(<<>>, backtick_matches(ex_text, 1)))
            sentence == names_of(append_valid(<<>>, sentence_matches(ex_text, 1)))
        IN  /\ standalone \subseteq found
            /\ found \subseteq valid_table_names
            /\ found = standalone \cup structured
            /\ backtick \cup sentence \subseteq standalone
            /\ (\A i \in 1..Len(ex_text) : ch(ex_text, i) \notin UnicodeWordChars) =>
                   found = standalone

\* a list item policy followed by a letter outside ASCII (written ~): found
\* by the structured-list pattern, not a word of its own
C29_Witness ==
    /\ ExtractedFromText
    /\ ex_text = "Tables:\n1. policy~"
    /\ ex_tables = <<"policy">>
    /\ standalone_tables(ex_text) = {}

====
